---- MODULE Spec2Model ----
(***************************************************************************)
(* Neon Racer: the game loop of RacingGame.tsx, the session state of       *)
(* App.tsx and the control source of WebcamController.tsx.                 *)
(*                                                                         *)
(* Numbers of the program are doubles; the model holds them in fixed       *)
(* point:                                                                  *)
(*   speed, playerX, entity x      1e-5                                    *)
(*   boost                         1e-2   (100 is 10000)                   *)
(*   dt                            1e-3 s (milliseconds)                   *)
(*   steering, throttle            1e-1                                    *)
(*   distance                      1e-6                                    *)
(*   y, roadOffset                 1e-1 px                                 *)
(*   bgOffset                      1e-2 px                                 *)
(*   screen X                      1e-3 px                                 *)
(* With the frame times and control values of DriveEnv and BoostEnv        *)
(* every product below is a whole number of these units, except the depth  *)
(* of an entity, which is rounded down to a tenth of a pixel.              *)
(***************************************************************************)
EXTENDS Integers, Sequences, FiniteSets, TLC

\* ---------------------------------------------------------------- bounds
\* Frames are followed while distance is below this (1e-6 units).
MaxDistance == 100000
\* Entities spawned in the life of the component (entityIdCounter), in
\* the driving environment and in the collecting environment.
MaxEntityId == 2
BoostEntityId == 5
\* The same in the audio-fault environment: four orbs fill the charge.
AudioEntityId == 4
\* Frames are followed to this distance, and this many spawns, in the
\* passing environment: far enough for an entity to leave the road.
PassDistance == 300000
PassEntityId == 3
\* Entities on the road at a time (state.entities.length).
MaxEntities == 2
\* Changes of the control signal delivered by the webcam loop.
MaxControlUpdates == 2
\* Frames that may run between a state update of App and the re-run of
\* the game-loop effect with the new props.
MaxStaleFrames == 1

\* ------------------------------------------------------------ environment
\* canvas.width, canvas.height as set by handleResize (window size).
canvas == [width |-> 200, height |-> 200]
\* Control signals the webcam loop can deliver: the neutral signal when
\* fewer than two hands are seen, else steering and throttle of the hands.
Neutral == [steering |-> 0, throttle |-> 0, isTracking |-> FALSE]
Hands(steerings, throttles) ==
  {[steering |-> s, throttle |-> t, isTracking |-> TRUE] :
      s \in steerings, t \in throttles}
\* What the environment may draw: deltas, timestamp - lastTime of a frame
\* in ms; laterals, (Math.random()*2-1)*0.9 of a spawned entity; types,
\* the obstacle kinds; maxId, the spawns followed; controls, the signals
\* delivered; trail, Math.random() > 0.5 of the boost trail; followBoost,
\* whether a boost that began is followed to its end beyond MaxDistance;
\* soundFailures, the sound whose playSound call throws in a tick;
\* distance, the distance up to which frames are followed.
\* The driving environment: every control, near and far entities.
DriveEnv ==
  [deltas |-> {100, 250}, laterals |-> {0, 85000}, types |-> {"rock", "oil"},
   maxId |-> MaxEntityId, controls |-> {Neutral} \cup Hands({0, 10}, {0, 10}),
   trail |-> {FALSE, TRUE}, followBoost |-> FALSE, soundFailures |-> {"none"},
   distance |-> MaxDistance]
\* The collecting environment: straight driving into every entity, long
\* enough to fill and to empty the boost charge.
BoostEnv ==
  [deltas |-> {100}, laterals |-> {0}, types |-> {"rock"},
   maxId |-> BoostEntityId, controls |-> {Neutral} \cup Hands({0}, {10}),
   trail |-> {FALSE}, followBoost |-> TRUE, soundFailures |-> {"none"},
   distance |-> MaxDistance]

\* The input environment: controlState is a prop of RacingGame, a pair of
\* numbers that gameLoop reads as they are; here they also lie outside
\* [-1, 1] and [0, 1].  No entity is spawned.
InputEnv ==
  [deltas |-> {50, 100}, laterals |-> {}, types |-> {},
   maxId |-> 0, controls |-> {Neutral} \cup Hands({-30, 0, 30}, {0, 10, 20}),
   trail |-> {FALSE}, followBoost |-> FALSE, soundFailures |-> {"none"},
   distance |-> MaxDistance]

\* The audio-fault environment: the collecting environment in which a
\* playSound call may throw (no AudioContext can be constructed, or the
\* context refuses a node), for one of the sounds.
AudioEnv ==
  [deltas |-> {100}, laterals |-> {0}, types |-> {"rock"},
   maxId |-> AudioEntityId, controls |-> {Neutral} \cup Hands({0}, {10}),
   trail |-> {FALSE}, followBoost |-> FALSE, soundFailures |-> {"none", "collect", "crash", "boost"},
   distance |-> MaxDistance]

\* The passing environment: orbs only, on the vehicle's line or beside
\* it, followed until an orb that was missed has left the road.
PassEnv ==
  [deltas |-> {100}, laterals |-> {0, 85000}, types |-> {},
   maxId |-> PassEntityId, controls |-> {Neutral} \cup Hands({0}, {10}),
   trail |-> {FALSE}, followBoost |-> FALSE, soundFailures |-> {"none"},
   distance |-> PassDistance]

\* The mounting environment: a short drive into rocks and orbs, in which
\* the view may be unmounted at any moment.
MountEnv ==
  [deltas |-> {100}, laterals |-> {0}, types |-> {"rock"},
   maxId |-> MaxEntityId, controls |-> {Neutral} \cup Hands({0}, {10}),
   trail |-> {FALSE}, followBoost |-> FALSE, soundFailures |-> {"none"},
   distance |-> MaxDistance]

\* The ordering environment: orbs and rocks on the vehicle's line or
\* beside it, and a vehicle that may steer towards those beside it, so
\* that an entity is reached after one spawned later.
OrderEnv ==
  [deltas |-> {100}, laterals |-> {0, 85000}, types |-> {"rock"},
   maxId |-> BoostEntityId,
   controls |-> {Neutral} \cup Hands({0, 10}, {10}),
   trail |-> {FALSE}, followBoost |-> FALSE, soundFailures |-> {"none"},
   distance |-> MaxDistance]

\* ---------------------------------------------------------------- helpers
Min(a, b) == IF a < b THEN a ELSE b
Max(a, b) == IF a > b THEN a ELSE b
Abs(a) == IF a < 0 THEN -a ELSE a
RemoveAt(s, i) == SubSeq(s, 1, i - 1) \o SubSeq(s, i + 1, Len(s))

\* ------------------------------------------------------------------ state
VARIABLES
  gameState,       \* App: useState<GameState>
  lastScore,       \* App: useState(0)
  controlState,    \* App: useState<ControlState>
  props,           \* the gameState and controlState captured by the
                   \* game-loop effect that is currently armed
  stateRef,        \* RacingGame: stateRef.current
  loading,         \* WebcamController: useState(true)
  cameraPermission,\* WebcamController: useState<boolean | null>(null)
  reported,        \* history: arguments of the onGameOver calls of the
                   \* current session, oldest first
  frame,           \* history: what the last frame did
  controlUpdates,  \* history: control changes delivered so far
  staleFrames,     \* history: frames run since props went stale
  armed,           \* RacingGame: a requestAnimationFrame(gameLoop)
                   \* callback is pending
  probe,           \* one depth advance of the entity loop on a canvas
                   \* of a given height (SpecDepth only)
  pending,         \* the gameLoop callbacks in the browser's list of
                   \* animation frame callbacks
  mounted,         \* App and its components are mounted
  audioCtx         \* RacingGame: audioCtxRef.current holds a context

vars == <<gameState, lastScore, controlState, props, stateRef, loading,
          cameraPermission, reported, frame, controlUpdates, staleFrames,
          armed, probe, pending, mounted, audioCtx>>

\* stateRef = useRef({...}).  Particles pushed together age together:
\* they are held as runs [life, n] of n particles with life ms left
\* (position, velocity, colour and size are only drawn).  lastTime is 0
\* until the first frame and 1 afterwards: the frame's input is the
\* difference timestamp - lastTime.
DefaultState ==
  [playerX |-> 0, speed |-> 0, roadOffset |-> 0, score |-> 0,
   distance |-> 0, boost |-> 0, isBoosting |-> FALSE, entities |-> <<>>,
   particles |-> <<>>, lastTime |-> 0, entityIdCounter |-> 0, bgOffset |-> 0]

InitialControl == Neutral

NoFrame ==
  [playing |-> FALSE, dt |-> 0, steering |-> 0, throttle |-> 0,
   isTracking |-> FALSE, events |-> <<>>, spliced |-> <<>>,
   spawned |-> <<>>]

NoProbe ==
  [height |-> canvas.height, y |-> 0, speed |-> 0, isBoosting |-> FALSE,
   dt |-> 0, y1 |-> 0, done |-> TRUE]

Init ==
  /\ probe = NoProbe
  /\ gameState = "MENU"
  /\ lastScore = 0
  /\ controlState = InitialControl
  /\ props = [gameState |-> "MENU", controlState |-> InitialControl]
  /\ stateRef = DefaultState
  /\ loading = TRUE
  /\ cameraPermission = "null"
  /\ reported = <<>>
  /\ frame = NoFrame
  /\ controlUpdates = 0
  /\ staleFrames = 0
  /\ armed = TRUE
  /\ pending = 1
  /\ mounted = TRUE
  /\ audioCtx = FALSE

\* ------------------------------------------------------------- game loop
\* const horizonY = h * 0.35, and h, in tenths of a pixel
HorizonOf(height) == (height * 35) \div 10
BottomOf(height) == height * 10
horizonY == HorizonOf(canvas.height)
hBottom == BottomOf(canvas.height)
CAR_WIDTH == 50
ROAD_WIDTH_PCT == 50

\* dt = Math.min((timestamp - lastTime) / 1000, 0.1), 0 on the first frame
FrameDt(s, delta) == IF s.lastTime = 0 THEN 0 ELSE Min(delta, 100)

\* Boost drain that omits the clamp state.boost = 0
BoostLogicNoFloor(s, dt) ==
  IF s.isBoosting
    THEN LET b == s.boost - 2 * dt
         IN  IF b <= 0 THEN [s EXCEPT !.boost = b, !.isBoosting = FALSE]
                       ELSE [s EXCEPT !.boost = b]
    ELSE s

\* Boost drain at 10 * dt instead of 20 * dt
BoostLogicHalfDrain(s, dt) ==
  IF s.isBoosting
    THEN LET b == s.boost - dt
         IN  IF b <= 0 THEN [s EXCEPT !.boost = 0, !.isBoosting = FALSE]
                       ELSE [s EXCEPT !.boost = b]
    ELSE s

\* Boost Logic: the drain of a boosting tick
BoostLogic(s, dt) ==
  IF s.isBoosting
    THEN LET b == s.boost - 2 * dt
         IN  IF b <= 0 THEN [s EXCEPT !.boost = 0, !.isBoosting = FALSE]
                       ELSE [s EXCEPT !.boost = b]
    ELSE s

\* let maxSpeed = 1.5; if (state.isBoosting) maxSpeed = 2.5, read before
\* the drain
MaxSpeedOf(s) == IF s.isBoosting THEN 250000 ELSE 150000

\* Speed update that omits the lower clamp Math.max(0, ...)
SpeedUpdateNoFloor(s, throttle, dt, maxSpeed) ==
  LET raw == IF throttle > 1 \/ s.isBoosting
               THEN s.speed + (IF s.isBoosting THEN 10 ELSE throttle) * 8 * dt
               ELSE s.speed - 30 * dt
  IN  [s EXCEPT !.speed = Min(maxSpeed, raw)]

\* Speed update that adds the friction term instead of subtracting it
SpeedUpdateFrictionAdded(s, throttle, dt, maxSpeed) ==
  LET raw == IF throttle > 1 \/ s.isBoosting
               THEN s.speed + (IF s.isBoosting THEN 10 ELSE throttle) * 8 * dt
               ELSE s.speed + 30 * dt
  IN  [s EXCEPT !.speed = Max(0, Min(maxSpeed, raw))]

\* Speed Update; s is the state after BoostLogic
SpeedUpdate(s, throttle, dt, maxSpeed) ==
  LET raw == IF throttle > 1 \/ s.isBoosting
               THEN s.speed + (IF s.isBoosting THEN 10 ELSE throttle) * 8 * dt
               ELSE s.speed - 30 * dt
  IN  [s EXCEPT !.speed = Max(0, Min(maxSpeed, raw))]

\* Player X update that omits the guard state.speed > 0.05
PlayerXUpdateUnguarded(s, steering, dt) ==
  [s EXCEPT !.playerX =
     Max(-120000, Min(120000, s.playerX + steering * 18 * dt))]

\* Player X update that omits the clamp to [-1.2, 1.2]
PlayerXUpdateNoClamp(s, steering, dt) ==
  IF s.speed > 5000
    THEN [s EXCEPT !.playerX = s.playerX + steering * 18 * dt]
    ELSE s

\* Player X Update
PlayerXUpdate(s, steering, dt) ==
  IF s.speed > 5000
    THEN [s EXCEPT !.playerX =
            Max(-120000, Min(120000, s.playerX + steering * 18 * dt))]
    ELSE s

speedMultiplier(s) == IF s.isBoosting THEN 1500 ELSE 1000

\* state.speed * speedMultiplier * dt, in tenths of a pixel
ScrollStep(s, dt) == (((s.speed * dt) \div 1000) * speedMultiplier(s)) \div 10000

\* World Movement
WorldMovement(s, steering, dt) ==
  [s EXCEPT
     !.roadOffset = @ + ScrollStep(s, dt),
     !.bgOffset = @ + (((s.speed * dt) \div 1000) * steering) \div 200,
     !.distance = @ + (s.speed * dt) \div 100,
     !.score = @ + (s.speed * (IF s.isBoosting THEN 2 ELSE 1)) \div 10000]

\* Boost Trail particles, inside if (state.isBoosting)
BoostTrail(s, wasBoosting, trail) ==
  IF wasBoosting /\ trail
    THEN [s EXCEPT !.particles = Append(@, [life |-> 500, n |-> 1])]
    ELSE s

Kinematics(s, c, dt, trail) ==
  LET maxSpeed == MaxSpeedOf(s)
      s1 == BoostTrail(BoostLogic(s, dt), s.isBoosting, trail)
      s2 == SpeedUpdate(s1, c.throttle, dt, maxSpeed)
      s3 == PlayerXUpdate(s2, c.steering, dt)
  IN  WorldMovement(s3, c.steering, dt)

\* Spawning.  A choice says for the obstacle and for the orb whether the
\* draw of Math.random() spawns it, and at which lateral position;
\* Math.random() < 0.02 * speed * difficulty is false at speed 0.
NewEntity(s, x, type) ==
  [id |-> s.entityIdCounter, x |-> x, y |-> horizonY, type |-> type,
   active |-> TRUE]

Push(s, x, type) ==
  [s EXCEPT !.entities = Append(@, NewEntity(s, x, type)),
            !.entityIdCounter = @ + 1]

\* An obstacle draw that can succeed at any speed
ObstacleMaySpawnAlways(s) == TRUE

\* Math.random() < 0.02 * state.speed * difficultyMultiplier can hold:
\* difficultyMultiplier = 1 + distance / 500 is positive, Math.random()
\* is never negative
ObstacleMaySpawn(s) == s.speed > 0

SpawnChoices(s, env) ==
  LET room == Min(env.maxId - s.entityIdCounter,
                  MaxEntities - Len(s.entities))
      obs == {[on |-> FALSE, x |-> 0, type |-> "rock"]} \cup
             (IF ObstacleMaySpawn(s)
                THEN {[on |-> TRUE, x |-> x, type |-> t] :
                         x \in env.laterals, t \in env.types}
                ELSE {})
      orbs == {[on |-> FALSE, x |-> 0]} \cup
              {[on |-> TRUE, x |-> x] : x \in env.laterals}
  IN  {ch \in [obstacle : obs, orb : orbs] :
         (IF ch.obstacle.on THEN 1 ELSE 0) + (IF ch.orb.on THEN 1 ELSE 0)
            <= room}

Spawning(s, ch) ==
  LET s1 == IF ch.obstacle.on
              THEN Push(s, ch.obstacle.x, ch.obstacle.type) ELSE s
  IN  IF ch.orb.on THEN Push(s1, ch.orb.x, "orb") ELSE s1

\* The entities that the spawning step of a tick pushed
Spawned(s, ch) ==
  SubSeq(Spawning(s, ch).entities, Len(s.entities) + 1,
         Len(Spawning(s, ch).entities))

\* createExplosion: 20 particles of life 1.0
createExplosion(particles) == Append(particles, [life |-> 1000, n |-> 20])

\* Particle Updates: p.life -= dt; if (p.life <= 0) splice
ParticleUpdates(particles, dt) ==
  LET aged == [i \in 1..Len(particles) |->
                  [particles[i] EXCEPT !.life = @ - dt]]
      Alive(p) == p.life > 0
  IN  SelectSeq(aged, Alive)

\* Screen X of the collision test: centerX + x * (w * ROAD_WIDTH_PCT / 2)
CollisionScreenX(x) ==
  (canvas.width * 1000) \div 2 +
  ((x \div 100) * ((canvas.width * ROAD_WIDTH_PCT * 10) \div 2)) \div 1000

hitDist == CAR_WIDTH * 800

\* Screen X of the render pass at depth y:
\*   progress = (y - horizonY) / (h - horizonY)
\*   roadW = roadTopW*2 + (roadBottomW*0.6*2 - roadTopW*2) * progress
\*   screenX = centerX + x * (roadW / 2)
\* with roadTopW = w * 0.1 and roadBottomW = w * 0.9
RenderRoadW(y) ==
  canvas.width * 200 +
  ((canvas.width * 880) * (y - horizonY)) \div (hBottom - horizonY)

RenderScreenX(x, y) ==
  (canvas.width * 1000) \div 2 + ((x \div 100) * (RenderRoadW(y) \div 2)) \div 1000

\* 6. Player Car: playerScreenY = h - 100
playerScreenY == hBottom - 1000

\* ent.y > h - 150 && ent.y < h + 50
InBandOf(y, hb) == y > hb - 1500 /\ y < hb + 500
InBand(y) == InBandOf(y, hBottom)

\* moveSpeed = speed * speedMultiplier * dt * (0.1 + progress * 2), with
\* progress = (ent.y - horizonY) / (h - horizonY); scroll is
\* speed * speedMultiplier * dt
MoveSpeed(scroll, y, hz, hb) ==
  (scroll * ((hb - hz) + 20 * (y - hz))) \div (10 * (hb - hz))

\* Hit resolution that crashes on an obstacle whatever isBoosting is
HitKindCrashInBoost(type, isBoosting) ==
  IF type = "orb" THEN "collect" ELSE "crash"

\* Orb charge without the cap Math.min(100, ...)
BoostAfterHitUncapped(kind, boost) ==
  IF kind = "collect" THEN boost + 2500 ELSE boost

\* Boost trigger that fires at 75 instead of 100
TriggerBoostEarly(kind, boost, isBoosting) ==
  kind = "collect" /\ boost >= 7500 /\ ~isBoosting

\* Boost trigger that never fires
TriggerBoostNever(kind, boost, isBoosting) == FALSE

\* The branch a hit takes: orb, else crash when not boosting, else destroy
HitKind(type, isBoosting) ==
  IF type = "orb" THEN "collect"
  ELSE IF ~isBoosting THEN "crash" ELSE "destroy"

\* state.boost = Math.min(100, state.boost + 25), on a collected orb
BoostAfterHit(kind, boost) ==
  IF kind = "collect" THEN Min(10000, boost + 2500) ELSE boost

\* Trigger Boost?  if (state.boost >= 100 && !state.isBoosting)
TriggerBoost(kind, boost, isBoosting) ==
  kind = "collect" /\ boost >= 10000 /\ ~isBoosting

\* state.score += 500 (orb), += 100 (obstacle destroyed in boost mode)
ScoreAfterHit(kind, score) ==
  IF kind = "collect" THEN score + 500
  ELSE IF kind = "destroy" THEN score + 100 ELSE score

\* ent.active = false, in the orb and the destroy branch
ActiveAfterHit(kind, active) ==
  IF kind \in {"collect", "destroy"} THEN FALSE ELSE active

\* Removal test that keeps a deactivated entity until it passes the line
SplicePastLineOnly(y, active) == y > hBottom + 1000

\* if (ent.y > h + 100 || !ent.active) state.entities.splice(i, 1)
Splice(y, active) == y > hBottom + 1000 \/ ~active

\* The sound of a resolution: playSound('crash') in the crash branch,
\* playSound('collect') in the orb and in the destroy branch
SoundOf(kind) == IF kind = "crash" THEN "crash" ELSE "collect"

\* One pass of the entity loop body for entities[i].  acc carries the
\* state, the onGameOver calls and the resolutions made so far, the ids
\* of the entities spliced out so far, the number of playSound calls
\* that returned (sounds), the sound whose playSound call
\* throws (fail) and whether it threw.  scroll is state.speed *
\* speedMultiplier * dt: speedMultiplier is a const of the tick, set in
\* World Movement before the loop.
\* playSound has no try/catch, so its exception leaves gameLoop at the
\* call.
EntityStep(acc, i, dt) ==
  IF acc.aborted THEN acc ELSE
  LET s == acc.s
      ent == s.entities[i]
      y1 == ent.y + MoveSpeed(acc.scroll, ent.y, horizonY, hBottom)
      hit == /\ InBand(y1) /\ ent.active
             /\ Abs(CollisionScreenX(ent.x) - CollisionScreenX(s.playerX))
                  < hitDist
      kind == IF hit THEN HitKind(ent.type, s.isBoosting) ELSE "none"
      \* playSound('collect') and playSound('crash') come before
      \* createExplosion; the playSound of the destroy branch comes last
      failFirst == hit /\ acc.fail = SoundOf(kind)
      boost1 == BoostAfterHit(kind, s.boost)
      trigger == ~failFirst /\ TriggerBoost(kind, boost1, s.isBoosting)
      \* playSound('boost')
      failBoost == trigger /\ acc.fail = "boost"
      aborted == failFirst \/ failBoost
      boost2 == IF trigger THEN 10000 ELSE boost1
      boosting1 == IF trigger THEN TRUE ELSE s.isBoosting
      score1 == ScoreAfterHit(kind, s.score)
      active1 == ActiveAfterHit(kind, ent.active)
      ent1 == [ent EXCEPT !.y = y1, !.active = active1]
      splice == ~aborted /\ Splice(y1, active1)
      ents1 == IF splice
                 THEN RemoveAt(s.entities, i)
                 ELSE [s.entities EXCEPT ![i] = ent1]
      exploded == hit /\ (kind = "destroy" \/ ~failFirst)
      called == kind = "crash" /\ ~failFirst
      \* playSound calls of this pass that returned
      played == (IF hit /\ ~failFirst THEN 1 ELSE 0) +
                (IF trigger /\ ~failBoost THEN 1 ELSE 0)
      ev == [id |-> ent.id, type |-> ent.type, kind |-> kind, y |-> y1,
             wasBoosting |-> s.isBoosting, boostBefore |-> s.boost,
             boostAfter |-> boost2, boostingAfter |-> boosting1,
             activated |-> trigger,
             scoreBefore |-> s.score, scoreAfter |-> score1,
             activeAfter |-> active1, called |-> called]
  IN  [s |-> [s EXCEPT !.entities = ents1, !.boost = boost2,
                       !.isBoosting = boosting1, !.score = score1,
                       !.particles = IF exploded THEN createExplosion(@)
                                     ELSE @],
       \* onGameOver(state.score)
       calls |-> IF called THEN Append(acc.calls, s.score) ELSE acc.calls,
       events |-> IF hit THEN Append(acc.events, ev) ELSE acc.events,
       spliced |-> IF splice THEN Append(acc.spliced, ent.id)
                   ELSE acc.spliced,
       scroll |-> acc.scroll,
       sounds |-> acc.sounds + played,
       fail |-> acc.fail,
       aborted |-> aborted]

RECURSIVE EntityLoop(_, _, _)
EntityLoop(acc, i, dt) ==
  IF i = 0 THEN acc ELSE EntityLoop(EntityStep(acc, i, dt), i - 1, dt)

\* An entity loop that runs from the first entity to the last
RECURSIVE EntityLoopForward(_, _, _)
EntityLoopForward(acc, i, dt) ==
  IF i > Len(acc.s.entities) THEN acc
  ELSE LET r == EntityStep(acc, i, dt)
       IN  EntityLoopForward(
             r, IF Len(r.s.entities) < Len(acc.s.entities) THEN i ELSE i + 1,
             dt)

EntityPassForward(acc, dt) == EntityLoopForward(acc, 1, dt)

\* for (let i = state.entities.length - 1; i >= 0; i--) { ... }
EntityPass(acc, dt) == EntityLoop(acc, Len(acc.s.entities), dt)

\* What the entity loop starts from: the state s1 after kinematics and
\* spawning, and the scroll of a tick whose state is s
LoopStart(s1, s, dt, fail) ==
  [s |-> s1, calls |-> <<>>, events |-> <<>>, spliced |-> <<>>,
   scroll |-> ScrollStep(s, dt), sounds |-> 0, fail |-> fail,
   aborted |-> FALSE]

\* An update block whose entity loop moves the entities with the speed
\* and the boost state the tick started from
UpdateStaleScroll(s, c, dt, ch, trail, fail) ==
  LET s1 == Spawning(Kinematics(s, c, dt, trail), ch)
      r == EntityPass(LoopStart(s1, s, dt, fail), dt)
  IN  IF r.aborted THEN r
      ELSE [r EXCEPT !.s.particles = ParticleUpdates(@, dt)]

\* The update block of gameLoop; the particle updates are not reached
\* when a playSound call threw.
Update(s, c, dt, ch, trail, fail) ==
  LET s1 == Spawning(Kinematics(s, c, dt, trail), ch)
      r == EntityPass(LoopStart(s1, s1, dt, fail), dt)
  IN  IF r.aborted THEN r
      ELSE [r EXCEPT !.s.particles = ParticleUpdates(@, dt)]

\* A tick whose phase guard let the kinematics through
PausedWithKinematics(s, c, dt) == Kinematics(s, c, dt, FALSE)

\* The update block when gameState is not PLAYING: if (gameState ===
\* GameState.PLAYING) { ... } has no else, the state is left as it is
Paused(s, c, dt) == s

\* animationFrameId = requestAnimationFrame(gameLoop), when reached
Rearm(n, reached) == IF reached THEN n + 1 ELSE n

\* A cleanup that leaves the requested frame in the list
CleanupNoCancel(n, tracked) == n

\* The cleanup of the game-loop effect: cancelAnimationFrame(
\* animationFrameId) takes the callback out of the list when the id is
\* that of a pending one
Cleanup(n, tracked) == IF tracked THEN n - 1 ELSE n

\* gameLoop: one animation frame, with the props its closure captured.
\* Its last statement requests the next frame.
Frame(env) ==
  /\ mounted
  /\ armed
  /\ pending > 0
  /\ \/ stateRef.distance < env.distance
     \/ env.followBoost /\ stateRef.isBoosting
  /\ \/ props = [gameState |-> gameState, controlState |-> controlState]
     \/ staleFrames < MaxStaleFrames
  /\ \E delta \in env.deltas :
       LET dt == FrameDt(stateRef, delta)
           s0 == [stateRef EXCEPT !.lastTime = 1]
       IN  IF props.gameState = "PLAYING"
             THEN \E trail \in (IF stateRef.isBoosting THEN env.trail
                                 ELSE {FALSE}),
                     ch \in SpawnChoices(
                              Kinematics(s0, props.controlState, dt, FALSE),
                              env),
                     fail \in env.soundFailures :
                    \* r: what the update block leaves, computed once
                    \E r \in {Update(s0, props.controlState, dt, ch, trail,
                                    fail)} :
                        /\ stateRef' = r.s
                        /\ frame' = [playing |-> TRUE, dt |-> dt,
                                     steering |-> props.controlState.steering,
                                     throttle |-> props.controlState.throttle,
                                     isTracking |->
                                       props.controlState.isTracking,
                                     events |-> r.events,
                                     spliced |-> r.spliced,
                                     spawned |->
                                       Spawned(Kinematics(
                                                 s0, props.controlState,
                                                 dt, trail), ch)]
                        /\ reported' = reported \o r.calls
                        \* handleGameOver, once per call
                        /\ IF r.calls # <<>>
                             THEN /\ lastScore' = r.calls[Len(r.calls)]
                                  /\ gameState' = "GAME_OVER"
                             ELSE UNCHANGED <<lastScore, gameState>>
                        /\ armed' = ~r.aborted
                        /\ pending' = Rearm(pending - 1, ~r.aborted)
                        \* playSound makes the context on its first
                        \* call; a call that throws may have made it
                        /\ audioCtx' \in
                             {audioCtx \/ r.sounds > 0} \cup
                             (IF r.aborted THEN {TRUE} ELSE {})
             ELSE /\ stateRef' = Paused(s0, props.controlState, dt)
                  /\ frame' = [NoFrame EXCEPT !.dt = dt]
                  /\ armed' = TRUE
                  /\ pending' = Rearm(pending - 1, TRUE)
                  /\ UNCHANGED <<reported, lastScore, gameState,
                                 audioCtx>>
  /\ staleFrames' =
       IF props = [gameState |-> gameState', controlState |-> controlState]
         THEN 0 ELSE staleFrames + 1
  /\ UNCHANGED <<controlState, props, loading, cameraPermission,
                 controlUpdates, probe, mounted>>

GameLoop == Frame(DriveEnv)
GameLoopBoost == Frame(BoostEnv)
GameLoopInput == Frame(InputEnv)
GameLoopAudio == Frame(AudioEnv)
GameLoopPass == Frame(PassEnv)
GameLoopMount == Frame(MountEnv)
GameLoopOrder == Frame(OrderEnv)

\* React re-renders App and re-runs the game-loop effect: the pending
\* frame is cancelled and a frame is requested that sees the current
\* gameState and controlState.
Render ==
  /\ mounted
  /\ props # [gameState |-> gameState, controlState |-> controlState]
  /\ props' = [gameState |-> gameState, controlState |-> controlState]
  /\ staleFrames' = 0
  /\ armed' = TRUE
  /\ pending' = Rearm(Cleanup(pending, armed), TRUE)
  \* audioCtxRef.current.close(); audioCtxRef.current = null
  /\ audioCtx' = FALSE
  /\ UNCHANGED <<gameState, lastScore, controlState, stateRef, loading,
                 cameraPermission, reported, frame, controlUpdates, probe,
                 mounted>>

\* The view is unmounted: the cleanup of the game-loop effect runs and
\* nothing is requested again.
Unmount ==
  /\ mounted
  /\ mounted' = FALSE
  /\ armed' = FALSE
  /\ pending' = Cleanup(pending, armed)
  /\ audioCtx' = FALSE
  /\ UNCHANGED <<gameState, lastScore, controlState, props, stateRef,
                 loading, cameraPermission, reported, frame,
                 controlUpdates, staleFrames, probe>>

\* A start button that is enabled without tracking
StartEnabledUntracked(phase, c) == phase \in {"MENU", "GAME_OVER"}

\* The buttons that call startGame: START RACE in the MENU overlay,
\* disabled={!controlState.isTracking}, and TRY AGAIN in the GAME OVER
\* overlay
StartEnabled(phase, c) ==
  \/ phase = "MENU" /\ c.isTracking
  \/ phase = "GAME_OVER"

\* App.startGame, from the START RACE or the TRY AGAIN button
startGame ==
  /\ mounted
  /\ props.gameState = gameState
  /\ StartEnabled(gameState, props.controlState)
  /\ gameState' = "PLAYING"
  /\ reported' = <<>>
  /\ staleFrames' = 0
  /\ UNCHANGED <<lastScore, controlState, props, stateRef, loading,
                 cameraPermission, frame, controlUpdates, armed, probe,
                 pending, mounted, audioCtx>>

\* WebcamController: initializeHandLandmarker().then(setLoading(false))
LandmarkerLoaded ==
  /\ mounted
  /\ loading
  /\ loading' = FALSE
  /\ UNCHANGED <<gameState, lastScore, controlState, props, stateRef,
                 cameraPermission, reported, frame, controlUpdates,
                 staleFrames, armed, probe, pending, mounted, audioCtx>>

\* WebcamController.startCamera: granted ('loadeddata') or refused
CameraResult ==
  /\ mounted
  /\ cameraPermission = "null"
  /\ cameraPermission' \in {"true", "false"}
  /\ UNCHANGED <<gameState, lastScore, controlState, props, stateRef,
                 loading, reported, frame, controlUpdates, staleFrames,
                 armed, probe, pending, mounted, audioCtx>>

\* WebcamController.renderLoop -> onControlUpdate -> setControlState
ControlUpdate(env) ==
  /\ mounted
  /\ props.gameState # "GAME_OVER"
  /\ ~loading
  /\ cameraPermission = "true"
  /\ controlUpdates < MaxControlUpdates
  /\ \E c \in env.controls \ {controlState} : controlState' = c
  /\ controlUpdates' = controlUpdates + 1
  /\ UNCHANGED <<gameState, lastScore, props, stateRef, loading,
                 cameraPermission, reported, frame, staleFrames, armed,
                 probe, pending, mounted, audioCtx>>

handleControlUpdate == ControlUpdate(DriveEnv)
handleControlUpdateBoost == ControlUpdate(BoostEnv)
handleControlUpdateInput == ControlUpdate(InputEnv)
handleControlUpdateAudio == ControlUpdate(AudioEnv)
handleControlUpdatePass == ControlUpdate(PassEnv)
handleControlUpdateMount == ControlUpdate(MountEnv)
handleControlUpdateOrder == ControlUpdate(OrderEnv)

Next ==
  \/ GameLoop
  \/ Render
  \/ startGame
  \/ LandmarkerLoaded
  \/ CameraResult
  \/ handleControlUpdate

Spec == Init /\ [][Next]_vars

NextBoost ==
  \/ GameLoopBoost
  \/ Render
  \/ startGame
  \/ LandmarkerLoaded
  \/ CameraResult
  \/ handleControlUpdateBoost

SpecBoost == Init /\ [][NextBoost]_vars

NextInput ==
  \/ GameLoopInput
  \/ Render
  \/ startGame
  \/ LandmarkerLoaded
  \/ CameraResult
  \/ handleControlUpdateInput

SpecInput == Init /\ [][NextInput]_vars

\* The depth advance of the entity loop as a function of its inputs: the
\* canvas height that handleResize set from the window, the depth of the
\* entity above the collision band, the speed within [0, maxSpeed], and
\* the frame time.
CanvasHeights == {400, 600, 800, 1000}
ProbeInputs ==
  {p \in [height : CanvasHeights,
          y : {BottomOf(hh) - 1500 - off :
                 hh \in CanvasHeights, off \in {0, 10, 500, 1000}},
          speed : {0, 50000, 100000, 150000, 200000, 250000},
          isBoosting : BOOLEAN, dt : {16, 50, 100},
          y1 : {0}, done : {FALSE}] :
     /\ p.y >= HorizonOf(p.height) /\ p.y <= BottomOf(p.height) - 1500
     /\ p.speed <= MaxSpeedOf(p)}

InitDepth ==
  /\ probe \in ProbeInputs
  /\ gameState = "PLAYING"
  /\ lastScore = 0
  /\ controlState = InitialControl
  /\ props = [gameState |-> "PLAYING", controlState |-> InitialControl]
  /\ stateRef = DefaultState
  /\ loading = TRUE
  /\ cameraPermission = "null"
  /\ reported = <<>>
  /\ frame = NoFrame
  /\ controlUpdates = 0
  /\ staleFrames = 0
  /\ armed = TRUE
  /\ pending = 1
  /\ mounted = TRUE
  /\ audioCtx = FALSE

\* ent.y += moveSpeed, for the entity and the tick of the probe
DepthAdvance ==
  /\ ~probe.done
  /\ probe' = [probe EXCEPT
                 !.y1 = probe.y + MoveSpeed(ScrollStep(probe, probe.dt),
                                            probe.y,
                                            HorizonOf(probe.height),
                                            BottomOf(probe.height)),
                 !.done = TRUE]
  /\ UNCHANGED <<gameState, lastScore, controlState, props, stateRef,
                 loading, cameraPermission, reported, frame,
                 controlUpdates, staleFrames, armed, pending, mounted,
                 audioCtx>>

NextDepth == DepthAdvance

SpecDepth == InitDepth /\ [][NextDepth]_vars

NextAudio ==
  \/ GameLoopAudio
  \/ Render
  \/ startGame
  \/ LandmarkerLoaded
  \/ CameraResult
  \/ handleControlUpdateAudio

SpecAudio == Init /\ [][NextAudio]_vars

NextPass ==
  \/ GameLoopPass
  \/ Render
  \/ startGame
  \/ LandmarkerLoaded
  \/ CameraResult
  \/ handleControlUpdatePass

SpecPass == Init /\ [][NextPass]_vars

NextMount ==
  \/ GameLoopMount
  \/ Render
  \/ startGame
  \/ LandmarkerLoaded
  \/ CameraResult
  \/ handleControlUpdateMount
  \/ Unmount

SpecMount == Init /\ [][NextMount]_vars

NextOrder ==
  \/ GameLoopOrder
  \/ Render
  \/ startGame
  \/ LandmarkerLoaded
  \/ CameraResult
  \/ handleControlUpdateOrder

SpecOrder == Init /\ [][NextOrder]_vars

\* ================================================================ claims
Events == {frame.events[i] : i \in 1..Len(frame.events)}
EntityIds == {stateRef.entities[i].id : i \in 1..Len(stateRef.entities)}

\* The fields a new session is to start from.
SessionDefaults(s) ==
  /\ s.speed = 0 /\ s.score = 0 /\ s.boost = 0 /\ ~s.isBoosting
  /\ s.playerX = 0 /\ s.entities = <<>>

\* C1: every step that starts a session (the phase goes to PLAYING from
\* MENU or from GAME_OVER) leaves the default SimulationState: speed,
\* score, boost and playerX 0, not boosting, no entity.
C1_StartYieldsDefaults ==
  [][gameState # "PLAYING" /\ gameState' = "PLAYING"
       => SessionDefaults(stateRef')]_vars

\* C2: a session makes at most one onGameOver call, and once it made one
\* the phase is no longer PLAYING.
C2_OneGameOverPerSession ==
  /\ Len(reported) <= 1
  /\ reported # <<>> => gameState = "GAME_OVER"

\* C3: once onGameOver was called in a session, score stays the value that
\* the first call reported.
C3_ScoreFrozenAfterGameOver ==
  reported # <<>> => stateRef.score = reported[1]

\* C4: speed lies in [0, maxSpeed], maxSpeed being 1.5 when isBoosting is
\* false and 2.5 when it is true, both read in the same state.
C4_SpeedWithinMaxSpeed ==
  /\ stateRef.speed >= 0
  /\ stateRef.speed <= (IF stateRef.isBoosting THEN 250000 ELSE 150000)

\* C5: for every entity inside the collision band, and for the vehicle,
\* the screen X of the collision test is the screen X of the render pass.
C5_ProjectionEquivalence ==
  /\ \A i \in 1..Len(stateRef.entities) :
       LET ent == stateRef.entities[i]
       IN  InBand(ent.y) =>
             CollisionScreenX(ent.x) = RenderScreenX(ent.x, ent.y)
  /\ CollisionScreenX(stateRef.playerX) =
       RenderScreenX(stateRef.playerX, playerScreenY)

\* C6: a Rock/Oil hit resolved while boosting does not call onGameOver,
\* deactivates and removes the entity, adds exactly 100 to score and
\* leaves boost and isBoosting as they were.
C6_BoostedHitDestroys ==
  \A ev \in Events :
    ev.type # "orb" /\ ev.wasBoosting =>
      /\ ~ev.called
      /\ ~ev.activeAfter /\ ev.id \notin EntityIds
      /\ ev.scoreAfter = ev.scoreBefore + 100
      /\ ev.boostAfter = ev.boostBefore
      /\ ev.boostingAfter

C6_Witness ==
  \E ev \in Events : ev.type # "orb" /\ ev.wasBoosting /\ gameState = "PLAYING"

\* C7: an Orb pickup at boost 75 while not boosting gives boosting with
\* boost 100, one at boost 50 gives not boosting with boost 75; and
\* isBoosting goes from false to true only in a step whose frame resolved
\* an Orb pickup that brought boost to 100.
C7_StepOk ==
  /\ \A i \in 1..Len(frame'.events) :
       LET ev == frame'.events[i]
       IN  ev.type = "orb" /\ ~ev.wasBoosting =>
             /\ ev.boostBefore = 7500 =>
                  ev.boostingAfter /\ ev.boostAfter = 10000
             /\ ev.boostBefore = 5000 =>
                  ~ev.boostingAfter /\ ev.boostAfter = 7500
  /\ ~stateRef.isBoosting /\ stateRef'.isBoosting =>
       \E i \in 1..Len(frame'.events) :
         LET ev == frame'.events[i]
         IN  /\ ev.kind = "collect" /\ ~ev.wasBoosting
             /\ ev.boostingAfter /\ ev.boostAfter = 10000

C7_BoostActivation == [][C7_StepOk]_vars

C7_Witness ==
  /\ \E ev \in Events :
       ev.type = "orb" /\ ev.boostBefore = 7500 /\ ev.boostingAfter
  /\ stateRef.isBoosting

\* C8: an Orb hit is a pickup whether boosting or not: the Orb is
\* deactivated and removed, boost becomes min(100, boost + 25), score
\* rises by 500, onGameOver is not called; while boosting it stays
\* boosting and no boost activation is triggered.
C8_OrbAlwaysCollected ==
  \A ev \in Events :
    ev.type = "orb" =>
      /\ ev.kind = "collect"
      /\ ~ev.activeAfter /\ ev.id \notin EntityIds
      /\ ev.boostAfter = Min(10000, ev.boostBefore + 2500)
      /\ ev.scoreAfter = ev.scoreBefore + 500
      /\ ~ev.called
      /\ ev.wasBoosting => ev.boostingAfter /\ ~ev.activated

C8_Witness ==
  \E ev \in Events :
    ev.type = "orb" /\ ev.wasBoosting /\ ev.boostBefore > 7500

\* C9 as stated, speed read at the start of the tick: a PLAYING tick that
\* starts at speed <= 0.05 leaves playerX unchanged.
C9_NoSteeringBelowStartSpeed ==
  [][props.gameState = "PLAYING" /\ stateRef.speed <= 5000
       => stateRef'.playerX = stateRef.playerX]_vars

\* C9 amended: a step that ends at speed <= 0.05 (speed changes only in
\* the speed update of a tick) leaves playerX unchanged.
C9_NoSteeringBelowUpdatedSpeed ==
  [][stateRef'.speed <= 5000 => stateRef'.playerX = stateRef.playerX]_vars

C9_Witness ==
  /\ frame.playing /\ frame.dt > 0 /\ frame.steering # 0
  /\ stateRef.speed > 0 /\ stateRef.speed <= 5000

\* C10: score and distance never decrease; a PLAYING tick adds speed * dt
\* to distance and floor(speed * 10 * (2 if boosting else 1)) plus the
\* bonuses of its collisions, each 0, 100 or 500, to score.
Bonus(ev) == ev.scoreAfter - ev.scoreBefore

RECURSIVE SumBonus(_)
SumBonus(evs) ==
  IF evs = <<>> THEN 0 ELSE Bonus(Head(evs)) + SumBonus(Tail(evs))

C10_StepOk ==
  /\ stateRef'.score >= stateRef.score
  /\ stateRef'.distance >= stateRef.distance
  /\ stateRef' # stateRef /\ frame'.playing =>
       LET boosting == stateRef.isBoosting /\ stateRef.boost > 2 * frame'.dt
           trickle == (stateRef'.speed * 10 * (IF boosting THEN 2 ELSE 1))
                         \div 100000
       IN  /\ trickle >= 0
           /\ stateRef'.distance - stateRef.distance
                = (stateRef'.speed * frame'.dt) \div 100
           /\ stateRef'.score - stateRef.score
                = trickle + SumBonus(frame'.events)
           /\ \A i \in 1..Len(frame'.events) :
                Bonus(frame'.events[i]) \in {0, 100, 500}
  /\ ~(stateRef' # stateRef /\ frame'.playing) =>
       stateRef'.score = stateRef.score
         /\ stateRef'.distance = stateRef.distance

C10_ScoreDistanceMonotone == [][C10_StepOk]_vars

C10_Witness ==
  /\ frame.playing /\ frame.dt > 0 /\ stateRef.isBoosting
  /\ stateRef.speed >= 50000
  /\ \E ev \in Events : ev.kind = "destroy"

\* C11: boost lies in [0, 100] in every state, and before and after every
\* collision resolution of a tick.
C11_BoostWithinRange ==
  /\ stateRef.boost >= 0 /\ stateRef.boost <= 10000
  /\ \A ev \in Events :
       /\ ev.boostBefore >= 0 /\ ev.boostBefore <= 10000
       /\ ev.boostAfter >= 0 /\ ev.boostAfter <= 10000

\* The tick in which the drain ran the charge out: it ends not boosting,
\* at charge 0, with the speed of a boost.
C11_Witness ==
  /\ frame.playing /\ frame.dt > 0
  /\ stateRef.boost = 0 /\ ~stateRef.isBoosting
  /\ stateRef.speed > 150000

\* C12: playerX lies in [-1.2, 1.2] in every state, whatever steering
\* values and frame times the ticks read, also after a tick that skipped
\* the lateral update.
C12_PlayerXWithinRange ==
  stateRef.playerX >= -120000 /\ stateRef.playerX <= 120000

\* A tick that read a steering value beyond 1 and ended at the clamp.
C12_Witness ==
  /\ frame.playing /\ frame.dt > 0 /\ Abs(frame.steering) > 10
  /\ Abs(stateRef.playerX) = 120000

\* A step is a PLAYING tick that read a signal with isTracking = false.
UntrackedTick ==
  /\ props.gameState = "PLAYING" /\ ~props.controlState.isTracking
  /\ stateRef' # stateRef

\* The session ends in a step only through a crash resolved in it.
EndsOnlyByCrash ==
  Len(reported') > Len(reported) =>
    \E i \in 1..Len(frame'.events) : frame'.events[i].kind = "crash"

\* C13 as stated: a PLAYING tick that read isTracking = false does not
\* raise speed, boosting or not, and ends the session only by a crash.
C13_UntrackedNeverAccelerates ==
  [][UntrackedTick =>
       stateRef'.speed <= stateRef.speed /\ EndsOnlyByCrash]_vars

\* C13 amended: such a tick does not raise speed when the state is not
\* boosting after the drain; when it is, speed rises by 0.8 * dt up to
\* 2.5; in both it ends the session only by a crash.
C13_UntrackedCoastsUnlessBoosting ==
  [][UntrackedTick =>
       /\ IF stateRef.isBoosting /\ stateRef.boost > 2 * frame'.dt
            THEN stateRef'.speed =
                   Min(250000, stateRef.speed + 80 * frame'.dt)
            ELSE stateRef'.speed <= stateRef.speed
       /\ EndsOnlyByCrash]_vars

\* A boosting tick that read isTracking = false and gained speed.
C13_Witness ==
  /\ frame.playing /\ frame.dt > 0 /\ ~frame.isTracking
  /\ stateRef.isBoosting /\ stateRef.speed > 0 /\ stateRef.speed < 250000

\* C14: a playSound call that fails is ignored: the frame callback stays
\* armed, no entity with active = false is left in entities, and no state
\* has boost = 100 with isBoosting = false.
C14_AudioFailureIgnored ==
  /\ armed
  /\ \A i \in 1..Len(stateRef.entities) : stateRef.entities[i].active
  /\ ~(stateRef.boost = 10000 /\ ~stateRef.isBoosting)

\* C15: one PLAYING tick changes playerX by at most 1.8 * dt in magnitude
\* and raises speed by at most 0.8 * dt, whatever steering and throttle
\* it reads.
C15_InputsClampedBeforeIntegration ==
  [][props.gameState = "PLAYING" /\ stateRef' # stateRef =>
       /\ Abs(stateRef'.playerX - stateRef.playerX) <= 180 * frame'.dt
       /\ stateRef'.speed - stateRef.speed <= 80 * frame'.dt]_vars

\* C16: when the camera could not be acquired, the frame loop can still
\* tick and the session can still be started from MENU.
C16_StartableWithoutCamera ==
  cameraPermission = "false" /\ gameState = "MENU" /\ props.gameState = "MENU"
    => ENABLED GameLoop /\ ENABLED startGame

\* A step is a PLAYING tick that started boosting.
BoostTick ==
  /\ props.gameState = "PLAYING" /\ stateRef.isBoosting
  /\ stateRef' # stateRef

C17_StepOk ==
  /\ BoostTick /\ (\A i \in 1..Len(frame'.events) :
                      frame'.events[i].kind # "collect") =>
       IF stateRef.boost > 2 * frame'.dt
         THEN /\ stateRef'.isBoosting
              /\ stateRef'.boost = stateRef.boost - 2 * frame'.dt
         ELSE ~stateRef'.isBoosting /\ stateRef'.boost = 0
  /\ BoostTick /\ stateRef.boost > 2 * frame'.dt =>
       stateRef'.speed = Min(250000, stateRef.speed + 80 * frame'.dt)
  /\ stateRef.isBoosting /\ ~stateRef'.isBoosting =>
       BoostTick /\ stateRef.boost <= 2 * frame'.dt

\* C17: a boosting tick without an Orb pickup lowers boost by 20 * dt, and
\* ends boosting at boost 0 when that reaches 0 (so a run of such ticks
\* with dt > 0 ends the boost after at most 100 / (20 * dt) of them);
\* isBoosting becomes false only in a tick whose drain reaches 0; a tick
\* that stays boosting accelerates with throttle 1.0 whatever throttle
\* it read.
C17_BoostDrainsToNormal == [][C17_StepOk]_vars

\* A boosting tick that read throttle 0, resolved nothing and drained.
C17_Witness ==
  /\ frame.playing /\ frame.dt > 0 /\ frame.throttle = 0
  /\ frame.events = <<>>
  /\ stateRef.isBoosting /\ stateRef.boost < 10000 /\ stateRef.speed > 0

\* C18: an entity that is above the collision band (y <= h - 150) before
\* the depth advance of a tick is not beyond it (y >= h + 50) after it,
\* for every speed in [0, maxSpeed] and every dt up to 0.1.
C18_NoTunnelling ==
  probe.done /\ probe.y <= BottomOf(probe.height) - 1500
    => probe.y1 < BottomOf(probe.height) + 500

\* C19: a step taken while the phase the game loop reads is MENU or
\* GAME_OVER leaves speed, playerX, score, distance, boost, isBoosting,
\* the scroll offsets and the entities unchanged and makes no onGameOver
\* call; a tick changes only lastTime.
C19_StepOk ==
  props.gameState # "PLAYING" =>
    /\ stateRef' = [stateRef EXCEPT !.lastTime = stateRef'.lastTime]
    /\ Len(reported') <= Len(reported)
    /\ lastScore' = lastScore

C19_NoUpdateOutsidePlaying == [][C19_StepOk]_vars

\* A tick of dt > 0 that ran in GAME_OVER with a moving vehicle and an
\* entity on the road.
C19_Witness ==
  /\ props.gameState = "GAME_OVER" /\ ~frame.playing /\ frame.dt > 0
  /\ stateRef.speed > 0 /\ stateRef.entities # <<>>

\* C20: a tick of dt > 0 that runs while the phase is MENU or GAME_OVER
\* ages the particles: each life decreases by dt and a particle whose
\* life has run out is removed.
C20_ParticlesAgeOutsidePlaying ==
  [][props.gameState # "PLAYING" /\ frame' # frame /\ frame'.dt > 0 =>
       stateRef'.particles =
         ParticleUpdates(stateRef.particles, frame'.dt)]_vars

\* The entities of s are all active and none is beyond the removal line.
AllLive(s) ==
  \A i \in 1..Len(s.entities) :
    s.entities[i].active /\ s.entities[i].y <= hBottom + 1000

C21_StepOk ==
  /\ AllLive(stateRef')
  /\ \A i \in 1..Len(frame'.events) :
       LET ev == frame'.events[i]
       IN  /\ ev.kind \in {"collect", "destroy"} =>
                /\ ~ev.activeAfter
                /\ \E k \in 1..Len(frame'.spliced) : frame'.spliced[k] = ev.id
           /\ \A j \in 1..Len(frame'.events) :
                j # i => frame'.events[j].id # ev.id
  /\ frame' # frame =>
       \A k \in 1..Len(frame'.spliced) :
         /\ \A n \in 1..Len(stateRef'.entities) :
              stateRef'.entities[n].id # frame'.spliced[k]
         /\ \A j \in 1..Len(frame'.spliced) :
              j # k => frame'.spliced[j] # frame'.spliced[k]
  /\ \A n \in 1..Len(stateRef'.entities) :
       LET id == stateRef'.entities[n].id
       IN  id < stateRef.entityIdCounter => id \in EntityIds

\* C21: after every step, so at the end of every PLAYING tick, every
\* entity in entities is active and not beyond the removal line
\* (y <= h + 100); an entity that a tick deactivated (Orb pickup, boosted
\* destruction) is spliced out in that tick; a spliced entity is not in
\* entities after the tick; no entity is resolved or spliced twice in a
\* tick, and an entity that left entities does not return.
C21_LiveEntitiesOnly == [][C21_StepOk]_vars

\* A tick that collected one orb and spliced out another that had passed
\* the removal line without a resolution.
C21_Witness ==
  /\ frame.playing /\ frame.dt > 0
  /\ Len(frame.spliced) = 2
  /\ Len(frame.events) = 1 /\ frame.events[1].kind = "collect"

\* The depth an entity at depth y has after the advance of a tick that
\* ends in state s1, started in state s0 and lasted dt: speed is the
\* speed the tick computed, the multiplier that of the boost state after
\* the drain.
C22_Advanced(y, s0, s1, dt) ==
  LET boosting == s0.isBoosting /\ s0.boost > 2 * dt
      scroll == (((s1.speed * dt) \div 1000) *
                   (IF boosting THEN 1500 ELSE 1000)) \div 10000
  IN  y + (scroll * ((hBottom - horizonY) + 20 * (y - horizonY)))
            \div (10 * (hBottom - horizonY))

\* The depth of entity id before the advance: its depth in s0, or the
\* horizon when the tick spawned it.
C22_DepthBefore(id, s0) ==
  IF \E k \in 1..Len(s0.entities) : s0.entities[k].id = id
    THEN LET k == CHOOSE k \in 1..Len(s0.entities) : s0.entities[k].id = id
         IN  s0.entities[k].y
    ELSE horizonY

C22_StepOk ==
  props.gameState = "PLAYING" /\ stateRef' # stateRef =>
    LET dt == frame'.dt
        Adv(id) == C22_Advanced(C22_DepthBefore(id, stateRef), stateRef,
                                stateRef', dt)
        Near(x) == Abs(CollisionScreenX(x) - CollisionScreenX(stateRef'.playerX))
                     < hitDist
    IN  \* every entity left on the road was advanced once, with the
        \* speed of this tick, also one spawned in this tick
        /\ \A k \in 1..Len(stateRef'.entities) :
             LET e == stateRef'.entities[k]
             IN  /\ e.y = Adv(e.id)
                 \* and was tested at that depth against the lateral
                 \* position of this tick
                 /\ (InBand(e.y) /\ Near(e.x)) =
                      (\E i \in 1..Len(frame'.events) :
                         frame'.events[i].id = e.id)
        \* every resolution was made at the advanced depth
        /\ \A i \in 1..Len(frame'.events) :
             LET ev == frame'.events[i]
             IN  ev.y = Adv(ev.id) /\ InBand(ev.y)
        \* an obstacle the tick spawned was drawn with the speed of
        \* this tick
        /\ \A k \in 1..Len(stateRef'.entities) :
             LET e == stateRef'.entities[k]
             IN  e.id >= stateRef.entityIdCounter /\ e.type # "orb"
                   => stateRef'.speed > 0

\* C22: in a PLAYING tick the entity loop comes after kinematics and
\* spawning: every entity, one spawned in the tick included, is advanced
\* with the speed the tick computed and the boost state after its drain,
\* and its collision test reads the advanced depth and the lateral
\* position of the tick.
C22_CollisionSeesAdvancedDepth == [][C22_StepOk]_vars

\* A tick with dt > 0 and speed > 0 in which an orb raised the charge to
\* 100 and an obstacle resolved after it was destroyed at its advanced
\* depth.
C22_Witness ==
  /\ frame.playing /\ frame.dt > 0 /\ stateRef.speed > 0
  /\ Len(frame.events) = 2
  /\ frame.events[1].activated /\ frame.events[2].kind = "destroy"
  /\ frame.events[2].y > horizonY

\* C23: while the view is mounted exactly one gameLoop callback is
\* pending after every step, a tick included (it re-armed itself) and a
\* re-run of the effect included (control update, phase change, crash
\* reported inside a tick); never more than one is pending; once the view
\* is unmounted none is pending and audioCtxRef holds no context.
C23_OneCallbackPending ==
  /\ pending <= 1
  /\ mounted => pending = 1 /\ armed
  /\ ~mounted => pending = 0 /\ ~audioCtx

\* The view was unmounted after a control update and right after a tick
\* that crashed (and played the crash sound), before the effect re-ran.
C23_Witness ==
  /\ ~mounted /\ controlUpdates > 0
  /\ gameState = "GAME_OVER" /\ props.gameState = "PLAYING"
  /\ reported # <<>>

\* The obstacles and the orbs a tick pushed.
C24_Pushed(f, orb) ==
  {i \in 1..Len(f.spawned) : (f.spawned[i].type = "orb") = orb}

\* The phase read by the next tick is PLAYING, and the spawns and the
\* entities on the road are below the numbers up to which they are
\* followed.
C24_TickWithRoom ==
  /\ props.gameState = "PLAYING"
  /\ stateRef.entityIdCounter < MaxEntityId
  /\ Len(stateRef.entities) < MaxEntities

\* The draws open to the spawning step of the next tick of frame time
\* delta.
C24_NextDraws(delta) ==
  SpawnChoices(Kinematics([stateRef EXCEPT !.lastTime = 1],
                          props.controlState, FrameDt(stateRef, delta),
                          FALSE),
               DriveEnv)

\* C24: the last PLAYING tick (the state is as it left it) pushed at most
\* one obstacle and at most one orb, each at the horizon and active, with
\* the next ids; it pushed no obstacle when speed after its kinematics
\* step was 0; and whatever speed and distance the next PLAYING tick
\* starts from, and whatever its frame time, its draws include one that
\* pushes an orb, and one that pushes no obstacle.
C24_SpawnGating ==
  /\ frame.playing =>
       /\ Cardinality(C24_Pushed(frame, FALSE)) <= 1
       /\ Cardinality(C24_Pushed(frame, TRUE)) <= 1
       \* speed is not changed after the kinematics step
       /\ stateRef.speed = 0 => C24_Pushed(frame, FALSE) = {}
       /\ \A i \in 1..Len(frame.spawned) :
            LET e == frame.spawned[i]
            IN  /\ e.y = horizonY /\ e.active
                /\ e.id = stateRef.entityIdCounter - Len(frame.spawned)
                            + i - 1
                /\ e.type \in {"rock", "oil", "orb"}
  /\ C24_TickWithRoom =>
       \A delta \in DriveEnv.deltas :
         \E ch \in C24_NextDraws(delta) : ch.orb.on /\ ~ch.obstacle.on

\* A tick that ended at speed 0 and pushed an orb, after the vehicle had
\* travelled.
C24_Witness ==
  /\ frame.playing /\ stateRef.speed = 0 /\ stateRef.distance > 0
  /\ C24_Pushed(frame, TRUE) # {} /\ C24_Pushed(frame, FALSE) = {}

C25_StepOk ==
  frame'.playing /\ (stateRef' # stateRef \/ frame' # frame) =>
    \A j \in 1..Len(frame'.events) :
      LET ev == frame'.events[j]
      IN  /\ \A i \in 1..(j - 1) :
               LET before == frame'.events[i]
               IN  /\ before.id > ev.id
                   /\ before.activated /\ ev.type # "orb" =>
                        /\ ev.kind = "destroy" /\ ~ev.called
                        /\ ev.scoreAfter = ev.scoreBefore + 100
          /\ j > 1 =>
               /\ ev.wasBoosting = frame'.events[j - 1].boostingAfter
               /\ ev.boostBefore = frame'.events[j - 1].boostAfter
               /\ ev.scoreBefore = frame'.events[j - 1].scoreAfter
          /\ ev.type # "orb" /\ ~ev.wasBoosting =>
               /\ ev.kind = "crash" /\ ev.called
               /\ gameState' = "GAME_OVER"
               /\ Len(reported') > Len(reported)
          /\ ev.type # "orb" /\ ev.wasBoosting => ev.kind = "destroy"
          /\ (\A i \in 1..Len(frame'.events) :
                frame'.events[i].kind # "crash") =>
               gameState' = gameState /\ reported' = reported

\* C25: the resolutions of a tick are in reverse spawn order (falling
\* ids); each reads the charge and the boost state that the one before it
\* left; an obstacle resolved after an Orb pickup of the same tick that
\* raised the charge to 100 is destroyed (+100, no onGameOver call); an
\* obstacle resolved while not boosting is a crash with an onGameOver
\* call, also when an Orb resolved after it in the same tick raises the
\* charge to 100.
C25_ResolutionOrder == [][C25_StepOk]_vars

\* A tick that resolved a rock first, as a crash, and then an orb spawned
\* before the rock, whose pickup raised the charge to 100.
C25_Witness ==
  /\ frame.playing /\ Len(frame.events) = 2
  /\ frame.events[1].kind = "crash" /\ frame.events[2].activated
  /\ gameState = "GAME_OVER"

\* The Orb pickups among the resolutions of a tick.
C26_Pickups(f) == {i \in 1..Len(f.events) : f.events[i].kind = "collect"}

C26_StepOk ==
  \* at the boundary
  /\ ~stateRef'.isBoosting => stateRef'.boost \in {0, 2500, 5000, 7500}
  /\ stateRef'.isBoosting => stateRef'.boost > 0 /\ stateRef'.boost <= 10000
  \* a tick that starts and ends in NORMAL changes the charge by its
  \* pickups only
  /\ ~stateRef.isBoosting /\ ~stateRef'.isBoosting
       /\ stateRef'.boost # stateRef.boost =>
         /\ frame'.playing
         /\ stateRef'.boost =
              stateRef.boost + 2500 * Cardinality(C26_Pickups(frame'))
  \* a boost ends at charge 0: what is left is what the pickups after
  \* the drain of that tick added
  /\ stateRef.isBoosting /\ ~stateRef'.isBoosting =>
       /\ frame'.playing /\ stateRef.boost <= 2 * frame'.dt
       /\ stateRef'.boost = 2500 * Cardinality(C26_Pickups(frame'))
  \* a boost begins at charge 100
  /\ ~stateRef.isBoosting /\ stateRef'.isBoosting =>
       stateRef'.boost = 10000

\* C26: after every step, isBoosting = false implies boost is 0, 25, 50
\* or 75 (never 100) and isBoosting = true implies 0 < boost <= 100; in
\* NORMAL the charge changes only by 25 per Orb pickup; a boost ends with
\* the charge set to 0 by the drain, and begins at 100.
C26_ChargeLevels == [][C26_StepOk]_vars

\* Five orbs were picked up: a boost began at the fourth, has ended, and
\* the charge is 25 again.
C26_Witness ==
  /\ ~stateRef.isBoosting /\ stateRef.boost = 2500
  /\ stateRef.entityIdCounter = 5 /\ stateRef.score >= 2500
  /\ stateRef.speed > 0

C27_StepOk ==
  /\ gameState' # gameState =>
       \/ /\ gameState = "MENU" /\ gameState' = "PLAYING"
          \* the signal as rendered: the START RACE button is enabled
          /\ props.controlState.isTracking
          /\ reported' = <<>>
       \/ /\ gameState = "PLAYING" /\ gameState' = "GAME_OVER"
          /\ Len(reported') > Len(reported)
          /\ \E i \in 1..Len(frame'.events) :
               /\ frame'.events[i].kind = "crash" /\ frame'.events[i].called
               /\ frame'.events[i].type \in {"rock", "oil"}
       \/ /\ gameState = "GAME_OVER" /\ gameState' = "PLAYING"
          /\ reported' = <<>>
  /\ gameState' = "GAME_OVER" =>
       /\ reported' # <<>>
       /\ lastScore' = reported'[Len(reported')]
  /\ Len(reported') > Len(reported) =>
       /\ gameState' = "GAME_OVER"
       /\ lastScore' = reported'[Len(reported')]
  /\ Len(reported') <= Len(reported) => lastScore' = lastScore

\* C27: gameState changes only MENU -> PLAYING (by startGame, with
\* isTracking = true in the control signal the menu is rendered with),
\* PLAYING -> GAME_OVER (in a tick that resolved a crash and called
\* onGameOver) and GAME_OVER -> PLAYING (by startGame); it never becomes
\* MENU again; and lastScore changes only in an onGameOver call, to its
\* argument, so that in GAME_OVER it is the argument of the latest call.
C27_PhaseTransitions == [][C27_StepOk]_vars

\* A session restarted from GAME_OVER while the control signal had
\* isTracking = false: the last tick resolved a crash, and the phase is
\* PLAYING again.
C27_Witness ==
  /\ gameState = "PLAYING" /\ reported = <<>>
  /\ \E ev \in Events : ev.called
  /\ ~controlState.isTracking /\ ~props.controlState.isTracking
  /\ lastScore > 0

====
